---- MODULE Spec2Model ----
(***************************************************************************)
(* LTSV reader of src/ltsv.rs: parse_head, each_record, group_by and       *)
(* order_by over one LineReader.  Text is a sequence of one-character      *)
(* strings; the source is a finite byte stream that read_line cuts after   *)
(* each "\n".  Each action is one iteration of an operation's read loop.   *)
(***************************************************************************)
EXTENDS Integers, Sequences, FiniteSets, TLC

VARIABLES stream, pos, pc, label, calls, start, consumed, eofReads,
          visited, group, lines, result, history

vars == <<stream, pos, pc, label, calls, start, consumed, eofReads,
          visited, group, lines, result, history>>

\* ---------------------------------------------------------------- bounds
MaxLen == 6        \* longest stream of Spec
MaxSeqLen == 4     \* longest stream of SeqSpec
MaxCalls == 2      \* operations called in sequence on one source (SeqSpec)
MaxEofReads == 2   \* zero-byte reads counted per operation (saturating)

TAB == "\t"
NL == "\n"
COLON == ":"
Alphabet == {"a", COLON, TAB, NL}
LabelArgs == {<<"a">>, <<>>}

Texts(n) == UNION {[1..k -> Alphabet] : k \in 0..n}

\* ------------------------------------------------- text primitives (std)
\* byte value of a character: the order String::cmp compares by
Ord(c) == CASE c = TAB -> 9 [] c = NL -> 10 [] c = COLON -> 58 [] OTHER -> 97

RECURSIVE cmp(_, _)
cmp(a, b) ==
    IF a = <<>> THEN (IF b = <<>> THEN 0 ELSE -1)
    ELSE IF b = <<>> THEN 1
    ELSE IF Ord(Head(a)) < Ord(Head(b)) THEN -1
    ELSE IF Ord(Head(a)) > Ord(Head(b)) THEN 1
    ELSE cmp(Tail(a), Tail(b))

\* index of the first c in s, 0 when there is none
find(s, c) ==
    IF \E i \in 1..Len(s) : s[i] = c
    THEN CHOOSE i \in 1..Len(s) : s[i] = c /\ \A j \in 1..(i - 1) : s[j] # c
    ELSE 0

\* BufRead::read_line at cursor p: the bytes up to and including the next
\* "\n", or up to the end of the stream; the empty text at end-of-stream
read_line(s, p) ==
    LET rest == SubSeq(s, p + 1, Len(s))
        n == find(rest, NL)
    IN IF n = 0 THEN rest ELSE SubSeq(rest, 1, n)

\* the reader's cursor after a read_line that returned n bytes
advance_peek(p, n) == p
advance(p, n) == p + n

\* String::pop: drops the last character, whatever it is
pop(s) == IF s = <<>> THEN s ELSE SubSeq(s, 1, Len(s) - 1)

\* str::split(c): always at least one piece
RECURSIVE split(_, _)
split(s, c) ==
    LET i == find(s, c)
    IN IF i = 0 THEN <<s>>
       ELSE <<SubSeq(s, 1, i - 1)>> \o split(SubSeq(s, i + 1, Len(s)), c)

\* str::splitn(2, ':'): one piece without a colon, else two
splitn(s) ==
    LET i == find(s, COLON)
    IN IF i = 0 THEN <<s>>
       ELSE <<SubSeq(s, 1, i - 1), SubSeq(s, i + 1, Len(s))>>

EmptyMap == [k \in {} |-> <<>>]
\* HashMap::insert: the new value replaces an older one
insert(m, k, v) == (k :> v) @@ m

\* ------------------------------------------------------ field loops
\* parse_head's loop over the fields of the found line
RECURSIVE head_fields(_, _)
head_fields(fields, record) ==
    IF fields = <<>> THEN [ok |-> TRUE, record |-> record, field |-> <<>>]
    ELSE LET v == splitn(Head(fields))
         IN IF Len(v) = 2
            THEN head_fields(Tail(fields), insert(record, v[1], v[2]))
            ELSE [ok |-> FALSE, record |-> EmptyMap, field |-> Head(fields)]

\* each_record's loop over the items of a line
RECURSIVE record_items(_, _)
record_items(items, record) ==
    IF items = <<>> THEN [ok |-> TRUE, record |-> record, field |-> <<>>]
    ELSE LET v == splitn(Head(items))
         IN IF Len(v) = 2
            THEN record_items(Tail(items), insert(record, v[1], v[2]))
            ELSE [ok |-> FALSE, record |-> EmptyMap, field |-> Head(items)]

\* group_by's loop over the items of a line: counts the matching ones
RECURSIVE count_items(_, _, _)
count_items(items, g, l) ==
    IF items = <<>> THEN [ok |-> TRUE, group |-> g, field |-> <<>>]
    ELSE LET v == splitn(Head(items))
         IN IF Len(v) # 2
            THEN [ok |-> FALSE, group |-> g, field |-> Head(items)]
            ELSE IF l # v[1] THEN count_items(Tail(items), g, l)
            ELSE LET old == IF v[2] \in DOMAIN g THEN g[v[2]] ELSE 0
                 IN count_items(Tail(items), insert(g, v[2], old + 1), l)

RECURSIVE line2record_fields(_, _)
line2record_fields(fields, record) ==
    IF fields = <<>> THEN [some |-> TRUE, record |-> record]
    ELSE LET v == splitn(Head(fields))
         IN IF Len(v) = 2
            THEN line2record_fields(Tail(fields), insert(record, v[1], v[2]))
            ELSE [some |-> FALSE, record |-> EmptyMap]

line2record(line) == line2record_fields(split(line, TAB), EmptyMap)

\* the key order_by's comparator derives from a buffered line
sort_key(line, l) ==
    LET r == line2record(line)
    IN IF ~r.some THEN <<>>
       ELSE IF l \in DOMAIN r.record THEN r.record[l] ELSE <<>>

\* Vec::sort_by (stable): x goes after every element not greater than it
RECURSIVE sort_insert(_, _, _)
sort_insert(sorted, x, l) ==
    IF sorted = <<>> THEN <<x>>
    ELSE IF cmp(sort_key(x, l), sort_key(Head(sorted), l)) < 0
         THEN <<x>> \o sorted
         ELSE <<Head(sorted)>> \o sort_insert(Tail(sorted), x, l)

RECURSIVE sort_from(_, _, _)
sort_from(sorted, rest, l) ==
    IF rest = <<>> THEN sorted
    ELSE sort_from(sort_insert(sorted, Head(rest), l), Tail(rest), l)

sort_by_drop_unkeyed(ls, l) ==
    sort_from(<<>>, SelectSeq(ls, LAMBDA x : sort_key(x, l) # <<>>), l)
sort_by(ls, l) == sort_from(<<>>, ls, l)

\* ------------------------------------------------------------ state
NoResult == [kind |-> "None", val |-> <<>>]

InitWith(n, c) ==
    /\ stream \in Texts(n)
    /\ pos = 0
    /\ pc = "idle"
    /\ label = <<>>
    /\ calls = c
    /\ start = 0
    /\ consumed = <<>>
    /\ eofReads = 0
    /\ visited = <<>>
    /\ group = EmptyMap
    /\ lines = <<>>
    /\ result = NoResult
    /\ history = <<>>

Init == InitWith(MaxLen, 1)
SeqInit == InitWith(MaxSeqLen, MaxCalls)

\* entry of an operation: fresh locals, the reader as the last one left it
Enter(op, l) ==
    /\ pc = "idle"
    /\ calls > 0
    /\ pc' = op
    /\ label' = l
    /\ calls' = calls - 1
    /\ start' = pos
    /\ consumed' = <<>>
    /\ eofReads' = 0
    /\ visited' = <<>>
    /\ group' = EmptyMap
    /\ lines' = <<>>
    /\ result' = NoResult
    /\ UNCHANGED <<stream, pos, history>>

CallParseHead == Enter("parse_head", <<>>)
CallEachRecord == Enter("each_record", <<>>)
CallGroupBy == \E l \in LabelArgs : Enter("group_by", l)
CallOrderBy == \E l \in LabelArgs : Enter("order_by", l)

\* one read_line of the running operation
Read(line) ==
    /\ pos' = advance(pos, Len(line))
    /\ consumed' = IF line = <<>> THEN consumed ELSE Append(consumed, line)
    /\ eofReads' = IF line = <<>> /\ eofReads < MaxEofReads
                   THEN eofReads + 1 ELSE eofReads

Return(kind, val) ==
    /\ pc' = "idle"
    /\ result' = [kind |-> kind, val |-> val]
    /\ history' = Append(history,
                         [op |-> pc, from |-> start, to |-> pos', kind |-> kind])

Continue == UNCHANGED <<pc, result, history>>

\* parse_head: one turn of the skip loop; a line longer than one byte is
\* parsed as it was read
ParseHeadStep ==
    /\ pc = "parse_head"
    /\ LET line == read_line(stream, pos)
       IN /\ Read(line)
          /\ IF Len(line) \in {0, 1}
             THEN Continue
             ELSE LET r == head_fields(split(line, TAB), EmptyMap)
                  IN IF r.ok THEN Return("Ok", r.record)
                     ELSE Return("Parse", r.field)
    /\ UNCHANGED <<stream, label, calls, start, visited, group, lines>>

\* each_record: one turn of its loop at cursor p of source s
each_record_turn(s, p) ==
    LET line == read_line(s, p)
        l == pop(line)
        r == record_items(split(l, TAB), EmptyMap)
    IN IF Len(line) = 0 THEN [t |-> "eof", record |-> EmptyMap, field |-> <<>>]
       ELSE IF Len(l) = 0 THEN [t |-> "skip", record |-> EmptyMap, field |-> <<>>]
       ELSE IF r.ok THEN [t |-> "visit", record |-> r.record, field |-> <<>>]
       ELSE [t |-> "error", record |-> EmptyMap, field |-> r.field]

EachRecordStep ==
    /\ pc = "each_record"
    /\ LET turn == each_record_turn(stream, pos)
       IN /\ Read(read_line(stream, pos))
          /\ CASE turn.t = "eof" -> Return("Ok", <<>>) /\ UNCHANGED visited
               [] turn.t = "skip" -> Continue /\ UNCHANGED visited
               [] turn.t = "visit" ->
                    /\ visited' = Append(visited, [rec |-> turn.record, at |-> pos])
                    /\ Continue
               [] turn.t = "error" -> Return("Parse", turn.field) /\ UNCHANGED visited
    /\ UNCHANGED <<stream, label, calls, start, group, lines>>

\* each_record run to its return on a source s read from cursor p: the
\* records handed to the visitor and the kind of the result
RECURSIVE each_record(_, _, _)
each_record(s, p, seen) ==
    LET turn == each_record_turn(s, p)
        q == advance(p, Len(read_line(s, p)))
    IN CASE turn.t = "eof" -> [kind |-> "Ok", visited |-> seen]
         [] turn.t = "skip" -> each_record(s, q, seen)
         [] turn.t = "visit" -> each_record(s, q, Append(seen, turn.record))
         [] turn.t = "error" -> [kind |-> "Parse", visited |-> seen]

GroupByStep ==
    /\ pc = "group_by"
    /\ LET line == read_line(stream, pos)
           l == pop(line)
           r == count_items(split(l, TAB), group, label)
       IN /\ Read(line)
          /\ IF Len(line) = 0 THEN Return("Ok", group) /\ UNCHANGED group
             ELSE IF Len(l) = 0 THEN Continue /\ UNCHANGED group
             ELSE IF r.ok THEN group' = r.group /\ Continue
                  ELSE Return("Parse", r.field) /\ group' = r.group
    /\ UNCHANGED <<stream, label, calls, start, visited, lines>>

OrderByStep ==
    /\ pc = "order_by"
    /\ LET line == read_line(stream, pos)
       IN /\ Read(line)
          /\ IF Len(line) = 0
             THEN Return("Ok", sort_by(lines, label)) /\ UNCHANGED lines
             ELSE lines' = Append(lines, line) /\ Continue
    /\ UNCHANGED <<stream, label, calls, start, visited, group>>

\* a read that fails: every operation returns the IO error at once
ReadFails ==
    /\ pc # "idle"
    /\ pc' = "idle"
    /\ result' = [kind |-> "Io", val |-> <<>>]
    /\ history' = Append(history,
                         [op |-> pc, from |-> start, to |-> pos, kind |-> "Io"])
    /\ UNCHANGED <<stream, pos, label, calls, start, consumed, eofReads,
                   visited, group, lines>>

Next ==
    \/ CallParseHead
    \/ CallEachRecord
    \/ CallGroupBy
    \/ CallOrderBy
    \/ ParseHeadStep
    \/ EachRecordStep
    \/ GroupByStep
    \/ OrderByStep
    \/ ReadFails

Spec == Init /\ [][Next]_vars
SeqSpec == SeqInit /\ [][Next]_vars

\* ------------------------------------------------- the format, as specified
\* the lines of source s from cursor p on, as read (terminators kept)
RECURSIVE RawLines(_, _)
RawLines(s, p) ==
    LET line == read_line(s, p)
    IN IF line = <<>> THEN <<>> ELSE <<line>> \o RawLines(s, p + Len(line))

RECURSIVE Flatten(_)
Flatten(ls) == IF ls = <<>> THEN <<>> ELSE Head(ls) \o Flatten(Tail(ls))

\* cursor at which line i of ls begins, ls read from cursor p
LineStart(ls, p, i) == p + Len(Flatten(SubSeq(ls, 1, i - 1)))

\* a line without its terminator, when it has one
Content(line) ==
    IF line # <<>> /\ line[Len(line)] = NL THEN SubSeq(line, 1, Len(line) - 1)
    ELSE line

Fields(line) == split(Content(line), TAB)
HasColon(f) == \E i \in 1..Len(f) : f[i] = COLON
LabelOf(f) == SubSeq(f, 1, find(f, COLON) - 1)
ValueOf(f) == SubSeq(f, find(f, COLON) + 1, Len(f))
Blank(line) == Content(line) = <<>>
WellFormed(line) == \A i \in 1..Len(Fields(line)) : HasColon(Fields(line)[i])
Malformed(line) == ~Blank(line) /\ ~WellFormed(line)

\* the record of a well-formed line: a repeated label keeps its last value
RecordOf(line) ==
    LET fs == Fields(line)
        lastOf(k) == CHOOSE i \in 1..Len(fs) :
                        /\ LabelOf(fs[i]) = k
                        /\ \A j \in (i + 1)..Len(fs) : LabelOf(fs[j]) # k
    IN [k \in {LabelOf(fs[i]) : i \in 1..Len(fs)} |-> ValueOf(fs[lastOf(k)])]

\* the sort key of a line: the label's value; empty when there is none
KeyOf(line, l) ==
    IF ~WellFormed(line) THEN <<>>
    ELSE IF l \in DOMAIN RecordOf(line) THEN RecordOf(line)[l] ELSE <<>>

Count(seq, x) == Cardinality({i \in 1..Len(seq) : seq[i] = x})
SameBag(a, b) ==
    /\ Len(a) = Len(b)
    /\ \A i \in 1..Len(a) : Count(a, a[i]) = Count(b, a[i])

Min(S) == CHOOSE x \in S : \A y \in S : x <= y

\* the operation that returned last, with its locals still in place
Returned(op) ==
    /\ pc = "idle"
    /\ history # <<>>
    /\ history[Len(history)].op = op
Input == RawLines(stream, start)

\* ------------------------------------------------------------ claims

\* C1: parse_head terminates on every finite input: once a read returns 0
\* bytes while every line so far was skipped, parse_head has left its skip
\* loop (with a "no head record found" outcome) instead of reading again.
C1_HeadLeavesLoopAtEof == ~(pc = "parse_head" /\ eofReads > 0)

\* C2: each_record calls the visitor exactly once for each non-blank
\* well-formed line before the first malformed line, in input order, never
\* for a blank line; with a malformed line it returns a Parse error at that
\* line and reads no further; otherwise it returns Ok at end-of-stream.
C2_EachRecordVisits ==
    (Returned("each_record") /\ result.kind # "Io") =>
        LET ls == Input
            bad == {i \in 1..Len(ls) : Malformed(ls[i])}
            stop == IF bad = {} THEN Len(ls) + 1 ELSE Min(bad)
            due == SelectSeq([i \in 1..Len(ls) |-> i],
                             LAMBDA i : i < stop /\ ~Blank(ls[i]))
        IN /\ Len(visited) = Len(due)
           /\ \A i \in 1..Len(due) : visited[i].at = LineStart(ls, start, due[i])
           /\ result.kind = IF bad = {} THEN "Ok" ELSE "Parse"
           /\ pos = IF bad = {} THEN Len(stream)
                    ELSE LineStart(ls, start, stop + 1)

\* C8: parse_head skips every leading line of at most one character and
\* returns the record of the first line not skipped, each label mapped to
\* exactly its field's value, the line terminator excluded.
C8_HeadRecord ==
    (Returned("parse_head") /\ result.kind = "Ok") =>
        LET ls == Input
            head == Min({i \in 1..Len(ls) : Len(ls[i]) > 1})
        IN /\ consumed = SubSeq(ls, 1, head)
           /\ result.val = RecordOf(ls[head])

\* C9: each_record and group_by strip exactly one trailing terminator and
\* nothing else: the record handed to the visitor for a line maps each label
\* to its full value, also for a last line that has no terminator, and
\* group_by counts full values.
C9_OnlyTerminatorStripped ==
    /\ Returned("each_record") =>
          \A i \in 1..Len(visited) :
             LET line == read_line(stream, visited[i].at)
             IN WellFormed(line) => visited[i].rec = RecordOf(line)
    /\ (Returned("group_by") /\ \A i \in 1..Len(Input) : ~Malformed(Input[i])) =>
          \A v \in DOMAIN group :
             \E i \in 1..Len(Input) : \E j \in 1..Len(Fields(Input[i])) :
                /\ ~Blank(Input[i])
                /\ LabelOf(Fields(Input[i])[j]) = label
                /\ ValueOf(Fields(Input[i])[j]) = v
\* C3: order_by returns the lines in ascending order of their sort key (the
\* label's value, empty when absent or malformed) and is stable: lines with
\* the same value keep their input order, whether the label is the last
\* field of its line or an earlier one.
C3_SortedAndStable ==
    (Returned("order_by") /\ result.kind = "Ok") =>
        LET out == result.val
        IN /\ \A i, j \in 1..Len(out) :
                 i < j => cmp(KeyOf(out[i], label), KeyOf(out[j], label)) <= 0
           /\ \A n \in 1..Len(Input) :
                 LET same(x) == KeyOf(x, label) = KeyOf(Input[n], label)
                 IN SelectSeq(out, same) = SelectSeq(Input, same)

\* C4: round trip: when every non-blank line is well-formed, each_record
\* over the lines order_by returned, fed back as a stream, visits the same
\* collection of records as each_record over the original input.
C4_RoundTrip ==
    (/\ Returned("order_by")
     /\ result.kind = "Ok"
     /\ \A i \in 1..Len(Input) : ~Malformed(Input[i])) =>
        SameBag(each_record(Flatten(result.val), 0, <<>>).visited,
                each_record(stream, start, <<>>).visited)

\* C5: when group_by returns Ok its table maps each value v to the number of
\* fields, over all non-blank lines, whose label is the designated label and
\* whose value is v; values that never occur are absent, every count >= 1.
C5_GroupCounts ==
    (Returned("group_by") /\ result.kind = "Ok") =>
        LET ls == Input
            hits(v) == {<<i, j>> \in (1..Len(ls)) \X (1..(MaxLen + 2)) :
                          /\ ~Blank(ls[i])
                          /\ j <= Len(Fields(ls[i]))
                          /\ HasColon(Fields(ls[i])[j])
                          /\ LabelOf(Fields(ls[i])[j]) = label
                          /\ ValueOf(Fields(ls[i])[j]) = v}
            values == UNION {{ValueOf(Fields(ls[i])[j]) : j \in 1..Len(Fields(ls[i]))}
                             : i \in 1..Len(ls)}
        IN /\ result.val = [v \in {w \in values : hits(w) # {}} |-> Cardinality(hits(v))]
           /\ \A v \in DOMAIN result.val : result.val[v] >= 1

\* C6: order_by never returns a Parse error: when no read fails it returns
\* Ok with a permutation of exactly the lines read, each as read, blank and
\* malformed lines included.
C6_OrderByKeepsEveryLine ==
    (Returned("order_by") /\ result.kind # "Io") =>
        /\ result.kind = "Ok"
        /\ pos = Len(stream)
        /\ SameBag(result.val, Input)

C6_Witness ==
    /\ Returned("order_by")
    /\ result.kind = "Ok"
    /\ \E i \in 1..Len(Input) : Blank(Input[i])
    /\ \E i \in 1..Len(Input) : Malformed(Input[i])
    /\ result.val # Input

\* C7: group_by validates every field of every non-blank line: it returns a
\* Parse error, and no table, if some field of a non-blank line has no colon,
\* and Ok only if every field of every non-blank line has one.
C7_GroupByValidatesAll ==
    (Returned("group_by") /\ result.kind # "Io") =>
        /\ result.kind = "Parse" <=> \E i \in 1..Len(Input) : Malformed(Input[i])
        /\ result.kind = "Ok" <=> \A i \in 1..Len(Input) : ~Malformed(Input[i])
\* cursor at which the operation before the current (or last) one returned
PrevTo ==
    LET n == IF pc = "idle" THEN Len(history) - 1 ELSE Len(history)
    IN IF n >= 1 THEN history[n].to ELSE 0

RECURSIVE Total(_)
Total(g) ==
    IF DOMAIN g = {} THEN 0
    ELSE LET v == CHOOSE w \in DOMAIN g : TRUE
         IN g[v] + Total([w \in DOMAIN g \ {v} |-> g[w]])

\* fields of the lines ls that carry the label l
Labelled(ls, l) ==
    {<<i, j>> \in (1..Len(ls)) \X (1..(MaxLen + 2)) :
        /\ j <= Len(Fields(ls[i]))
        /\ HasColon(Fields(ls[i])[j])
        /\ LabelOf(Fields(ls[i])[j]) = l}

\* C10: the operations consume the shared source strictly forward and never
\* re-read a line: each operation starts where the one before it left the
\* reader and reads the stream's bytes once, in order; after parse_head has
\* returned at its head line, the next operation visits, counts or returns
\* only lines after that line; after end-of-stream was reached, a further
\* operation sees no lines.
C10_ForwardOnly ==
    /\ start = PrevTo
    /\ start <= pos
    /\ Flatten(consumed) = SubSeq(stream, start + 1, pos)
    /\ (/\ pc = "idle"
        /\ Len(history) >= 2
        /\ history[Len(history) - 1].op = "parse_head"
        /\ history[Len(history) - 1].kind \in {"Ok", "Parse"}) =>
          LET before == RawLines(stream, history[Len(history) - 1].from)
              head == Min({i \in 1..Len(before) : Len(before[i]) > 1})
              rest == RawLines(stream, PrevTo)
          IN /\ PrevTo = LineStart(before, history[Len(history) - 1].from, head + 1)
             /\ \A i \in 1..Len(visited) : visited[i].at >= PrevTo
             /\ Total(group) <= Cardinality(Labelled(rest, label))
             /\ (Returned("order_by") /\ result.kind = "Ok") =>
                   SameBag(result.val, rest)
    /\ (Len(history) >= 1 /\ PrevTo = Len(stream)) =>
          /\ consumed = <<>>
          /\ visited = <<>>
          /\ group = EmptyMap
          /\ lines = <<>>
          /\ result.kind = "Ok" => result.val \in {<<>>, EmptyMap}

C10_Witness ==
    /\ Returned("order_by")
    /\ result.kind = "Ok"
    /\ result.val # <<>>
    /\ Len(history) = 2
    /\ history[1].op = "parse_head"
    /\ history[1].kind = "Ok"
    /\ Len(read_line(stream, 0)) = 1
====
